---- MODULE Spec2Model ----
(***************************************************************************)
(* gaugemonitor: the polling loop of src/gaugemonitor.py (run), the        *)
(* per-gauge rolling cache of class TIC (store_data, read_gauge) and the   *)
(* figure of class GaugeFigure (update_data, flush).                       *)
(*                                                                         *)
(* Python floats are modelled as exact rationals [k, n, d] (k = "num"),    *)
(* np.nan as k = "nan" and Python's None as k = "none": sums, products and *)
(* quotients are exact, so every statement about a computed number is a    *)
(* statement up to floating-point rounding.                                *)
(***************************************************************************)
EXTENDS Integers, Sequences, FiniteSets, TLC

\* ---------------------------------------------------------------- bounds
\* Largest cache size (the memory argument of TIC) explored by Spec.
MaxMemory == 3
\* Polling cycles explored by Spec.
MaxCycles == 3
\* Polling cycles explored by SpecRun after its initial history.
RunCycles == 2
\* Clock reading (in ticks) when the figure is constructed.
StartTick == 1

\* ------------------------------------------------------- program constants
\* sleep(0.5): the clock of the model counts half seconds.
TicksPerSecond == 2
\* memory=200, the default cache size, the one run() uses.
DefaultMemory == 200
\* ydata[-10:]: the window of the gradient estimate.
K == 10
\* (pressure + 20*old)/21
OldWeight == 20
SmoothDiv == 21
\* pressure *= 1e-2
HwScale == 100
\* f'{pressure:.5e}': six significant digits.
LogDigits == 6
\* datetime's %f: microseconds.
MicrosPerSecond == 1000000
\* gauges = [1,2]
Gauges == <<1, 2>>

\* ------------------------------------------------------------- arithmetic
Abs(x) == IF x < 0 THEN -x ELSE x

RECURSIVE GCD(_, _)
GCD(a, b) == IF b = 0 THEN a ELSE GCD(b, a % b)

\* n/d in lowest terms with a positive denominator.
Num(n, d) ==
    LET g == GCD(Abs(n), Abs(d))
        s == IF d < 0 THEN -1 ELSE 1
    IN  [k |-> "num", n |-> s * (n \div g), d |-> s * (d \div g)]

Whole(n) == [k |-> "num", n |-> n, d |-> 1]
NaN == [k |-> "nan", n |-> 0, d |-> 1]
None == [k |-> "none", n |-> 0, d |-> 1]

\* np.isfinite on a stored float.
IsFinite(v) == v.k = "num"

LCM(a, b) == (a \div GCD(a, b)) * b

FAdd(a, b) ==
    IF a.k = "num" /\ b.k = "num"
    THEN LET l == LCM(a.d, b.d)
         IN  Num(a.n * (l \div a.d) + b.n * (l \div b.d), l)
    ELSE NaN

FSub(a, b) ==
    IF a.k = "num" /\ b.k = "num"
    THEN LET l == LCM(a.d, b.d)
         IN  Num(a.n * (l \div a.d) - b.n * (l \div b.d), l)
    ELSE NaN

FMulInt(a, c) == IF a.k = "num" THEN Num(a.n * c, a.d) ELSE NaN

FDivInt(a, c) == IF a.k = "num" THEN Num(a.n, a.d * c) ELSE NaN

RECURSIVE Pow10(_)
Pow10(e) == IF e <= 0 THEN 1 ELSE 10 * Pow10(e - 1)

Max(a, b) == IF a >= b THEN a ELSE b

\* ------------------------------------------------------------ TIC's cache
\* One row of a cache: (t, pressure).
Sample(t, p) == [t |-> t, p |-> p]

\* np.full((memory, 2), np.nan)
EmptyCache(mem) == [i \in 1..mem |-> Sample(NaN, NaN)]

\* np.roll(cache, -1, axis=0): the shift the other way round.
RollUp(cache) ==
    [i \in 1..Len(cache) |-> cache[(i % Len(cache)) + 1]]

\* np.roll(cache, 1, axis=0): every row moves one place down, the last row
\* comes round to the front.
Roll(cache) ==
    [i \in 1..Len(cache) |-> cache[((i - 2) % Len(cache)) + 1]]

\* A store_data that puts the new row in front and discards nothing.
StoreDataGrowing(cache, t, pressure) == <<Sample(t, pressure)>> \o cache

\* store_data: the new cache of the gauge.
StoreData(cache, t, pressure) ==
    [Roll(cache) EXCEPT ![1] = Sample(t, pressure)]

\* The blend without the np.isfinite test.
SmoothUnguarded(pressure, old) ==
    FDivInt(FAdd(pressure, FMulInt(old, OldWeight)), SmoothDiv)

\* The blend with the weights not adding up to the divisor.
SmoothOvershoot(pressure, old) ==
    IF IsFinite(old)
    THEN FDivInt(FAdd(pressure, FMulInt(old, OldWeight)), OldWeight)
    ELSE pressure

\* The emulated reading: blended with the newest cached pressure when that
\* one is finite.
Smooth(pressure, old) ==
    IF IsFinite(old)
    THEN FDivInt(FAdd(pressure, FMulInt(old, OldWeight)), SmoothDiv)
    ELSE pressure

\* The hardware reading: None becomes nan, a number is scaled to mbar.
FromTic(pressure) ==
    IF pressure.k = "none" THEN NaN ELSE FDivInt(pressure, HwScale)

\* 1e-9 * time_ns(): the clock reading in seconds.
Seconds(ticks) == Num(ticks, TicksPerSecond)

\* ------------------------------------------------------------ the log file
\* The decimal exponent of a/d > 0: 10^e <= a/d < 10^(e+1).
RECURSIVE Exp10(_, _)
Exp10(a, d) ==
    IF a >= 10 * d THEN Exp10(a, 10 * d) + 1
    ELSE IF a < d THEN Exp10(10 * a, d) - 1
    ELSE 0

\* Long division: steps more decimal digits of the quotient q, remainder r.
RECURSIVE LongDiv(_, _, _, _)
LongDiv(q, r, d, steps) ==
    IF steps = 0 THEN <<q, r>>
    ELSE LongDiv(10 * q + ((10 * r) \div d), (10 * r) % d, d, steps - 1)

\* f'{pressure:.5e}': sign, six-digit mantissa (round half to even) and
\* decimal exponent; 'nan' for nan.
Fmt5e(v) ==
    IF v.k # "num" THEN [nan |-> TRUE, neg |-> FALSE, mant |-> 0, exp |-> 0]
    ELSE IF v.n = 0 THEN [nan |-> FALSE, neg |-> FALSE, mant |-> 0, exp |-> 0]
    ELSE
      LET a  == Abs(v.n)
          e  == Exp10(a, v.d)
          dd == v.d * Pow10(e - (LogDigits - 1))
          qr == LongDiv(a \div dd, a % dd, dd, Max(0, (LogDigits - 1) - e))
          q  == qr[1]
          r  == qr[2]
          up == (2 * r > dd) \/ (2 * r = dd /\ q % 2 = 1)
          m  == IF up THEN q + 1 ELSE q
          carry == m = Pow10(LogDigits)
      IN  [nan  |-> FALSE,
           neg  |-> v.n < 0,
           mant |-> IF carry THEN Pow10(LogDigits - 1) ELSE m,
           exp  |-> IF carry THEN e + 1 ELSE e]

\* datetime.fromtimestamp(t).strftime('%Y-%m-%d %H:%M:%S.%f'): whole seconds
\* and microseconds.
DateStr(t) ==
    [sec  |-> t.n \div t.d,
     usec |-> ((t.n % t.d) * MicrosPerSecond) \div t.d]

\* The line written to the gauge's file.
LogLine(t, pressure) == [datestr |-> DateStr(t), pressure |-> Fmt5e(pressure)]

\* ------------------------------------------------------------- the figure
\* One point of a plotted series: (xdata[i], ydata[i]).
Point(x, y) == [x |-> x, y |-> y]

\* s[-n:]
LastN(s, n) == SubSeq(s, Max(1, Len(s) - n + 1), Len(s))

RECURSIVE SumSeq(_)
SumSeq(s) == IF s = <<>> THEN 0 ELSE Head(s) + SumSeq(Tail(s))

RECURSIVE LcmDen(_)
LcmDen(vs) == IF vs = <<>> THEN 1 ELSE LCM(Head(vs).d, LcmDen(Tail(vs)))

\* The values of vs as whole multiples of 1/den.
Scaled(vs, den) == [i \in 1..Len(vs) |-> vs[i].n * (den \div vs[i].d)]

\* What np.polyfit(x, y, 1) can do, as [raised, slope]: slope is coef[0].
\*  - a nan among the data (or a column of the design matrix that is all
\*    zero, which the column scaling turns into nan) reaches LAPACK's
\*    least-squares driver: numpy either raises LinAlgError ("SVD did not
\*    converge") or returns nan coefficients, depending on the LAPACK build;
\*  - a design matrix of full rank gives the least-squares line;
\*  - a rank-deficient one (a single point, or equal x) gives the
\*    minimum-norm solution of the column-scaled system, of slope
\*    mean(y)/(2x), with a RankWarning only.
Polyfit(xs, ys) ==
    LET n == Len(xs)
        I == 1..n
    IN
    IF \E i \in I : ~IsFinite(xs[i]) \/ ~IsFinite(ys[i])
    THEN {[raised |-> TRUE, slope |-> NaN], [raised |-> FALSE, slope |-> NaN]}
    ELSE
      LET dx  == LcmDen(xs)
          dy  == LcmDen(ys)
          X   == Scaled(xs, dx)
          Y   == Scaled(ys, dy)
          sx  == SumSeq(X)
          sy  == SumSeq(Y)
          sxx == SumSeq([i \in I |-> X[i] * X[i]])
          sxy == SumSeq([i \in I |-> X[i] * Y[i]])
          det == n * sxx - sx * sx
      IN
      IF det # 0
      THEN {[raised |-> FALSE,
             slope  |-> FDivInt(FMulInt(Num(n * sxy - sx * sy, det), dx), dy)]}
      ELSE IF sxx = 0
      THEN {[raised |-> TRUE, slope |-> NaN], [raised |-> FALSE, slope |-> NaN]}
      ELSE {[raised |-> FALSE,
             slope  |-> FDivInt(FMulInt(Num(sy, 2 * n * X[1]), dx), dy)]}

\* The whole series, not its last K points.
WindowAll(sr) == sr

\* xdata[-10:], ydata[-10:] of a plotted series.
Window(sr) == LastN(sr, K)

Xs(w) == [i \in 1..Len(w) |-> w[i].x]
Ys(w) == [i \in 1..Len(w) |-> w[i].y]

\* The gradient estimates update_data can arrive at for a series.
Gradients(sr) == Polyfit(Xs(Window(sr)), Ys(Window(sr)))

\* ------------------------------------------------------------------ state
VARIABLES
    emulate,    \* TIC.emulate
    memory,     \* the memory argument of TIC: rows of every cache
    data,       \* TIC.data: gauge -> cache, newest row first
    files,      \* TIC.files: gauge -> the lines written so far
    series,     \* GaugeFigure.series: row -> the plotted points
    gradient,   \* row -> coef[0] of the row's last update_data
    t0,         \* GaugeFigure.t0, in ticks
    clock,      \* what time_ns() reads, in ticks
    pc,         \* where run() is: "read", "update", "flush", "sleep", "raised"
    gi,         \* position of the for loop in gauges
    cur,        \* (t, pressure) returned by the last read_gauge
    raw,        \* gauge -> what the reading source gave last
    inserted,   \* gauge -> every sample handed to store_data, oldest first
    cycle,      \* passes of the while loop completed
    flushed,    \* calls of fig.flush()
    horizon     \* the pass at which the exploration stops

vars == <<emulate, memory, data, files, series, gradient, t0, clock, pc, gi,
          cur, raw, inserted, cycle, flushed, horizon>>

GaugeSet == {Gauges[i] : i \in 1..Len(Gauges)}

\* fig.update_data(g-1, ...)
Row(g) == g - 1

Rows == {Row(g) : g \in GaugeSet}

\* What the reading source can give: 1050*random() when emulating, the
\* pressure property of the TIC's gauge (None when it has no value) else.
RandomReadings == {Whole(0), Whole(105)}
TicReadings == {None, Whole(10000), Whole(20000)}

\* The cache sizes explored.
Memories == (MaxMemory - 1)..MaxMemory

\* The clock at the first read_gauge: the figure's t0 or later.
FirstTicks == {StartTick, StartTick + 1}

\* Ticks a pass takes: sleep(0.5) and the time the reads and the drawing
\* take.
PassTicks == {1, 2}

\* ----------------------------------------------------------------- set-up
\* The state once GaugeFigure and TIC are constructed, for a TIC made with
\* the given emulate and memory and an exploration of the given length.
Fresh(em, mem, first, passes) ==
    /\ emulate = em
    /\ memory = mem
    /\ data = [g \in GaugeSet |-> EmptyCache(mem)]
    /\ files = [g \in GaugeSet |-> <<>>]
    /\ series = [row \in Rows |-> <<>>]
    /\ gradient = [row \in Rows |-> None]
    /\ t0 = StartTick
    /\ clock = first
    /\ pc = "read"
    /\ gi = 1
    /\ cur = Sample(None, None)
    /\ raw = [g \in GaugeSet |-> None]
    /\ inserted = [g \in GaugeSet |-> <<>>]
    /\ cycle = 0
    /\ flushed = 0
    /\ horizon = passes

\* TIC(port, gauges, memory, emulate) with any arguments.
Init ==
    \E em \in BOOLEAN, mem \in Memories, first \in FirstTicks :
        Fresh(em, mem, first, MaxCycles)

\* ------------------------------------------------------------- operations
\* The reading of gauge g that read_gauge stores, from what the source
\* gave: old is row 0 of the gauge's own cache.
Reading(em, d, g, r) ==
    IF em THEN Smooth(r, d[g][1].p) ELSE FromTic(r)

\* One array behind every key of self.data.
StoredShared(d, g, t, pressure) ==
    [h \in DOMAIN d |-> StoreData(d[g], t, pressure)]

\* self.data[gauge_no] after store_data(gauge_no, t, pressure).
Stored(d, g, t, pressure) ==
    [d EXCEPT ![g] = StoreData(d[g], t, pressure)]

\* self.files[gauge_no].write(...)
Written(f, g, t, pressure) ==
    [f EXCEPT ![g] = Append(f[g], LogLine(t, pressure))]

\* An update_data that stacks the new point in front of the series.
PlottedInFront(sr, row, t, pressure, start) ==
    [sr EXCEPT ![row] = <<Point(FSub(t, Seconds(start)), pressure)>> \o sr[row]]

\* The row's series after update_data(row, t, pressure): tt = t - self.t0
\* and the pressure are appended.
Plotted(sr, row, t, pressure, start) ==
    [sr EXCEPT ![row] = Append(sr[row], Point(FSub(t, Seconds(start)), pressure))]

\* A for loop left after its first gauge.
OnwardBreak(i) == [gi |-> i, pc |-> "flush"]

\* for g in gauges: ...; fig.flush(): where run() goes once the gauge at
\* position i is done.
Onward(i) ==
    IF i < Len(Gauges) THEN [gi |-> i + 1, pc |-> "read"]
    ELSE [gi |-> i, pc |-> "flush"]

\* tic.read_gauge(g): the time is read, the reading taken (emulated or from
\* the TIC), stored in the cache and written to the gauge's file.
ReadGauge ==
    /\ pc = "read"
    /\ \E r \in (IF emulate THEN RandomReadings ELSE TicReadings) :
         LET g == Gauges[gi]
             t == Seconds(clock)
             pressure == Reading(emulate, data, g, r)
         IN  /\ data' = Stored(data, g, t, pressure)
             /\ files' = Written(files, g, t, pressure)
             /\ inserted' = [inserted EXCEPT ![g] = Append(@, Sample(t, pressure))]
             /\ raw' = [raw EXCEPT ![g] = r]
             /\ cur' = Sample(t, pressure)
    /\ pc' = "update"
    /\ UNCHANGED <<emulate, memory, series, gradient, t0, clock, gi, cycle,
                   flushed, horizon>>

\* fig.update_data(g-1, t, pressure): the point is appended to the row's
\* series, then the gradient is fitted to the last K points (and shown in
\* the row's text box and gradient line, which are not modelled). An
\* exception of polyfit leaves run(), which catches nothing.
UpdateData ==
    /\ pc = "update"
    /\ LET row == Row(Gauges[gi])
           sr  == Plotted(series, row, cur.t, cur.p, t0)
       IN  /\ series' = sr
           /\ \E o \in Gradients(sr[row]) :
                IF o.raised
                THEN /\ pc' = "raised"
                     /\ UNCHANGED <<gradient, gi>>
                ELSE /\ gradient' = [gradient EXCEPT ![row] = o.slope]
                     /\ gi' = Onward(gi).gi
                     /\ pc' = Onward(gi).pc
    /\ UNCHANGED <<emulate, memory, data, files, t0, clock, cur, raw, inserted,
                   cycle, flushed, horizon>>

\* fig.flush()
Flush ==
    /\ pc = "flush"
    /\ flushed' = flushed + 1
    /\ pc' = "sleep"
    /\ UNCHANGED <<emulate, memory, data, files, series, gradient, t0, clock,
                   gi, cur, raw, inserted, cycle, horizon>>

\* sleep(0.5), and round the while loop again. The loop of run() never
\* ends; the exploration stops at the horizon.
Sleep ==
    /\ pc = "sleep"
    /\ cycle + 1 < horizon
    /\ \E d \in PassTicks : clock' = clock + d
    /\ cycle' = cycle + 1
    /\ gi' = 1
    /\ pc' = "read"
    /\ UNCHANGED <<emulate, memory, data, files, series, gradient, t0, cur,
                   raw, inserted, flushed, horizon>>

Next == ReadGauge \/ UpdateData \/ Flush \/ Sleep

Spec == Init /\ [][Next]_vars

\* ------------------------------------------------------- run() as written
\* run() makes TIC(TIC_PORT, gauges): the TIC is read, the caches have 200
\* rows. SpecRun starts from the fresh state or from the state a number of
\* passes leave behind, computed below with the operations of the passes:
\* every gauge has had the readings of hist, one each pass, two ticks apart.
RECURSIVE CacheAfter(_, _)
CacheAfter(hist, mem) ==
    IF hist = <<>> THEN EmptyCache(mem)
    ELSE LET last == hist[Len(hist)]
         IN  StoreData(CacheAfter(SubSeq(hist, 1, Len(hist) - 1), mem),
                       Seconds(last.tick), FromTic(last.r))

After(hist, passes) ==
    LET n      == Len(hist)
        last   == hist[n]
        smp(i) == Sample(Seconds(hist[i].tick), FromTic(hist[i].r))
        pts    == [i \in 1..n |->
                     Point(FSub(smp(i).t, Seconds(StartTick)), smp(i).p)]
    IN
    /\ emulate = FALSE
    /\ memory = DefaultMemory
    /\ data = [g \in GaugeSet |-> CacheAfter(hist, DefaultMemory)]
    /\ files = [g \in GaugeSet |-> [i \in 1..n |-> LogLine(smp(i).t, smp(i).p)]]
    /\ series = [row \in Rows |-> pts]
    /\ gradient = [row \in Rows |->
                     (CHOOSE o \in Gradients(pts) : ~o.raised).slope]
    /\ t0 = StartTick
    /\ clock = last.tick
    /\ pc = "sleep"
    /\ gi = Len(Gauges)
    /\ cur = smp(n)
    /\ raw = [g \in GaugeSet |-> last.r]
    /\ inserted = [g \in GaugeSet |-> [i \in 1..n |-> smp(i)]]
    /\ cycle = n - 1
    /\ flushed = n
    /\ horizon = n + passes

\* A history: junk readings of 30000 first, then line readings that rise by
\* 1000 a pass and end at 9000.
History(junk, line) ==
    [i \in 1..(junk + line) |->
        [tick |-> StartTick + 1 + 2 * (i - 1),
         r    |-> IF i <= junk THEN Whole(30000)
                  ELSE Whole(1000 * ((K - 1) - line + (i - junk)))]]

Histories == {History(j, l) : j \in 0..1, l \in (K - 1)..K}

InitRun ==
    \/ Fresh(FALSE, DefaultMemory, StartTick + 1, RunCycles)
    \/ \E h \in Histories : After(h, RunCycles)

SpecRun == InitRun /\ [][Next]_vars

\* ----------------------------------------------------------------- claims
\* Exact product and order of two numbers, for the statements below.
FMul(a, b) ==
    IF a.k = "num" /\ b.k = "num" THEN Num(a.n * b.n, a.d * b.d) ELSE NaN

FLeq(a, b) ==
    LET l == LCM(a.d, b.d)
    IN  a.n * (l \div a.d) <= b.n * (l \div b.d)

FMin(a, b) == IF FLeq(a, b) THEN a ELSE b
FMax(a, b) == IF FLeq(a, b) THEN b ELSE a

Placeholder == Sample(NaN, NaN)

\* C1: every gauge's cache has exactly `memory` rows, at creation and after
\* any number of insertions.
C1_CacheKeepsItsSize ==
    \A g \in GaugeSet : Len(data[g]) = memory

\* C1's case: a gauge that has had more insertions than its cache has rows.
C1_Witness ==
    \E g \in GaugeSet :
        /\ Len(inserted[g]) > memory
        /\ Len(data[g]) = memory
        /\ memory > 1

\* C2: after N insertions a cache holds, newest first, the last
\* min(N, memory) samples inserted (row i is the (N-i+1)-th inserted one)
\* and placeholders behind them; once N >= memory the last row is the
\* (N-memory+1)-th inserted sample.
C2_NewestFirst ==
    \A g \in GaugeSet :
        LET N == Len(inserted[g])
        IN  /\ DOMAIN data[g] = 1..memory
            /\ \A i \in 1..memory :
                 data[g][i] = IF i <= N THEN inserted[g][N - i + 1]
                              ELSE Placeholder
            /\ N >= memory => data[g][memory] = inserted[g][N - memory + 1]

\* C2's case: a two-row cache whose oldest sample has been discarded and
\* whose two survivors differ.
C2_Witness ==
    \E g \in GaugeSet :
        /\ memory = 2
        /\ Len(inserted[g]) = 3
        /\ data[g] = <<inserted[g][3], inserted[g][2]>>
        /\ inserted[g][1].p # inserted[g][2].p
        /\ inserted[g][2].p # inserted[g][3].p

\* The gauge read_gauge and update_data are working on.
Current == Gauges[gi]

\* A step of read_gauge.
ReadStep == pc = "read" /\ pc' = "update"

\* C3: when emulating and row 0 of the gauge's cache holds no finite
\* pressure (the first poll included), read_gauge returns and stores exactly
\* the raw reading.
C3_RawWhenNoPrior ==
    [][(ReadStep /\ emulate /\ ~IsFinite(data[Current][1].p))
        => /\ cur'.p = raw'[Current]
           /\ data'[Current][1].p = raw'[Current]]_vars

\* C3's case: the first emulated reading of a gauge, stored as read.
C3_Witness ==
    \E g \in GaugeSet :
        /\ emulate
        /\ Len(inserted[g]) = 1
        /\ raw[g] = Whole(105)
        /\ data[g][1].p = Whole(105)

Pos(g) == CHOOSE i \in 1..Len(Gauges) : Gauges[i] = g

Bit(b) == IF b THEN 1 ELSE 0

\* C8: in every pass each gauge is read once and its cache takes one
\* insertion, a gauge's sample is inserted before it is handed to the
\* figure, and flush and sleep come only when every gauge of the pass has
\* been read, inserted and handed over.
C8_Sequential ==
    /\ pc \in {"read", "update", "flush", "sleep", "raised"}
    /\ gi \in 1..Len(Gauges)
    /\ flushed = cycle + Bit(pc = "sleep")
    /\ \A g \in GaugeSet :
         LET n == Len(inserted[g])
             h == Len(series[Row(g)])
         IN  /\ Len(files[g]) = Len(inserted[g])
             /\ CASE pc = "read"   -> /\ n = cycle + Bit(Pos(g) < gi)
                                      /\ h = n
                  [] pc = "update" -> /\ n = cycle + Bit(Pos(g) <= gi)
                                      /\ h = cycle + Bit(Pos(g) < gi)
                  [] pc = "raised" -> /\ n = cycle + Bit(Pos(g) <= gi)
                                      /\ h = n
                  [] OTHER         -> /\ n = cycle + 1
                                      /\ h = n

\* C8's case: the second pass has read, inserted and handed over both
\* gauges and has flushed.
C8_Witness ==
    /\ pc = "sleep"
    /\ cycle = 1
    /\ flushed = 2
    /\ \A g \in GaugeSet : Len(inserted[g]) = 2 /\ Len(series[Row(g)]) = 2

\* C9: a gauge's file holds one line per sample inserted into its cache, in
\* the order of insertion, and the gauge's series one point per sample, in
\* the same order (the sample being plotted is the only one it may lack);
\* no sample reaches another gauge's file or series.
C9_SinksInOrder ==
    \A g \in GaugeSet :
        LET ins == inserted[g]
            sr  == series[Row(g)]
        IN  /\ Len(files[g]) = Len(ins)
            /\ \A i \in 1..Len(ins) : files[g][i] = LogLine(ins[i].t, ins[i].p)
            /\ Len(sr) = Len(ins) - Bit(pc = "update" /\ Current = g)
            /\ \A i \in 1..Len(sr) :
                 sr[i] = Point(FSub(ins[i].t, Seconds(t0)), ins[i].p)

\* C9's case: two gauges with three samples each, all different.
C9_Witness ==
    /\ \A g \in GaugeSet : Len(series[Row(g)]) = 3 /\ Len(files[g]) = 3
    /\ \A g \in GaugeSet : \A i, j \in 1..3 :
         i # j => inserted[g][i].p # inserted[g][j].p
    /\ inserted[Gauges[1]][1].p # inserted[Gauges[2]][1].p

\* C10: a step changes the cache of no gauge but the one read_gauge is
\* reading, and the emulated reading is blended with row 0 of that gauge's
\* own cache.
C10_OwnCacheOnly ==
    [][/\ \A h \in GaugeSet :
            data'[h] # data[h] => ReadStep /\ h = Current
       /\ (ReadStep /\ emulate)
            => cur'.p = Smooth(raw'[Current], data[Current][1].p)]_vars

\* C10's case: the second gauge is read while the first one's cache holds
\* other samples.
C10_Witness ==
    /\ pc = "update"
    /\ Current = Gauges[2]
    /\ cycle = 1
    /\ data[Gauges[1]] # data[Gauges[2]]
    /\ data[Gauges[1]][1].p # data[Gauges[2]][1].p

\* A point with a time and a pressure that are both numbers.
Valid(pt) == IsFinite(pt.x) /\ IsFinite(pt.y)

ValidCount(w) == Cardinality({i \in 1..Len(w) : Valid(w[i])})

\* The last K points of a row's series.
Recent(row) == LastN(series[row], K)

\* C5: with fewer than two valid samples among the last K of a gauge, the
\* trend estimate is reported as unavailable: update_data raises nothing and
\* yields no number.
C5_TrendUnavailable ==
    \A row \in Rows :
        (series[row] # <<>> /\ ValidCount(Recent(row)) < 2)
            => /\ ~(pc = "raised" /\ Row(Current) = row)
               /\ ~IsFinite(gradient[row])

\* The points of w lie on one line through w[1] and w[2].
Collinear(w) ==
    \A i \in 1..Len(w) :
        FMul(FSub(w[i].y, w[1].y), FSub(w[2].x, w[1].x))
            = FMul(FSub(w[2].y, w[1].y), FSub(w[i].x, w[1].x))

\* The slope of the line through w[1] and w[2]: b when y = a + b*x.
LineSlope(w) ==
    LET dy == FSub(w[2].y, w[1].y)
        dx == FSub(w[2].x, w[1].x)
    IN  Num(dy.n * dx.d, dy.d * dx.n)

EndToEnd == <<Sample(Whole(1), Whole(100)), Sample(Whole(2), Whole(200))>>

\* C6: when the last K points of a gauge (all of them when there are fewer)
\* are at least two, at different times, and lie on a line y = a + b*x, the
\* gradient is b, whatever the older points are; and (1, 100.0) then
\* (2, 200.0) inserted into an empty cache of 200 rows give a gradient of
\* 100.0.
C6_LinearTrend ==
    /\ \A row \in Rows :
         LET w == Recent(row)
         IN  (/\ Len(w) >= 2
              /\ \A i \in 1..Len(w) : Valid(w[i])
              /\ w[1].x # w[2].x
              /\ Collinear(w))
                 => gradient[row] = LineSlope(w)
    /\ \A g \in GaugeSet :
         (/\ memory = DefaultMemory
          /\ inserted[g] = EndToEnd
          /\ Len(series[Row(g)]) = 2)
             => gradient[Row(g)] = Whole(100)

\* C6's case: the end-to-end run on a cache of 200 rows.
C6_Witness ==
    \E g \in GaugeSet :
        /\ Len(data[g]) = 200
        /\ inserted[g] = EndToEnd
        /\ data[g][1] = EndToEnd[2] /\ data[g][2] = EndToEnd[1]
        /\ data[g][3] = Placeholder
        /\ Len(series[Row(g)]) = 2
        /\ gradient[Row(g)] = Whole(100)

\* More than K points, the older ones off the line of the last K, which
\* were all polled by the model's passes.
C6_OlderIgnored ==
    \E row \in Rows :
        /\ Len(series[row]) > K
        /\ cycle >= horizon - RunCycles
        /\ Collinear(Recent(row))
        /\ ~Collinear(series[row])
        /\ gradient[row] = Whole(10)

====
